---- MODULE Spec2Model ----
(***************************************************************************)
(* State-machine model of the hivpn forwarding core: the peer (ARP) table, *)
(* authenConn, the two packet pumps (handler / writeTunToDev), and the     *)
(* reconnect loop of Create with TUN.Connect, from main to process exit.   *)
(* Spec takes each pump call as one step; SpecRace takes the pumps through *)
(* writeDevToTun statement by statement; SpecPad runs setupAuthentication  *)
(* over configured passwords of every length.                              *)
(***************************************************************************)
EXTENDS Integers, Sequences, FiniteSets, TLC

(* ------------------------------ bounds -------------------------------- *)
\* number of connection handles handed out by the transport
MaxConn == 2
\* cap on the number of Connect calls in one run of Create
MaxAttempts == 13
\* longest configured password tried
MaxPassLen == 33

(* --------------------------- program constants ------------------------ *)
MAX_TRY == 10
KEY_LEN == 32

(* ------------------------------ addresses ----------------------------- *)
\* An IPv4 address is its four octets; a CIDR is <<address, prefix length>>.
IP_U1 == <<10, 0, 0, 2>>
IP_U2 == <<10, 0, 0, 3>>
IP_SRV == <<10, 0, 0, 1>>
IP_FREE == <<10, 0, 0, 9>>
IP_OUT == <<8, 8, 8, 8>>
NoIP == <<>>
Dsts == {IP_U1, IP_U2, IP_SRV, IP_FREE, IP_OUT}

\* network.GetIp: the address of an "a.b.c.d/n" string, CIDR suffix removed.
GetIp(cidr) == cidr[1]

\* net.IPNet.Contains for a /24 network: the first three octets agree.
Contains(net, ip) == /\ Len(ip) = 4
                     /\ \A i \in 1..3 : ip[i] = net[1][i]

\* conf.LocalAddr and the network net.ParseCIDR derives from it.
LocalAddr == <<IP_SRV, 24>>
myNetwork == <<<<10, 0, 0, 0>>, 24>>

(* -------------------------------- keys -------------------------------- *)
\* A byte string of length n: '0' (48) everywhere except its last byte b.
MkKey(n, b) == [i \in 1..n |-> IF i = n THEN b ELSE 48]

TestBytes == {32, 48, 64, 65}
K0 == MkKey(32, 48)
KShort == MkKey(5, 48)
Keys == {MkKey(32, b) : b \in TestBytes} \cup {KShort}

\* Passwords as configured ("pw", "pq"); 't' is 116.
PW1 == <<112, 119>>
PW2 == <<112, 113>>

\* setupAuthentication's padding of one password.
PadPass(p) == IF Len(p) < KEY_LEN
              THEN p \o [i \in 1..(KEY_LEN - Len(p)) |-> 116]
              ELSE <<>>

\* conf.Users on the server.
ConfUsers == { [Name |-> "u1", Pass |-> PW1, IP |-> <<IP_U1, 24>>],
               [Name |-> "u2", Pass |-> PW2, IP |-> <<IP_U2, 24>>] }

\* conf.Users on the client: the single credential main builds.
ClientUsers == { [Name |-> "u1", Pass |-> PW1, IP |-> <<IP_U1, 24>>] }

\* setupAuthentication: name -> User{Pass: padded, IP: GetIp(u.IP)}.
setupAuthentication(users) ==
    [n \in {u.Name : u \in users} |->
        LET u == CHOOSE x \in users : x.Name = n
        IN  [Pass |-> PadPass(u.Pass), IP |-> GetIp(u.IP)]]

(* ------------------------------- crypto ------------------------------- *)
\* A ciphertext remembers the key it was made under and its plaintext;
\* ok = FALSE is a malformed ciphertext.
ValidAESKey(k) == Len(k) \in {16, 24, 32}
Err == [err |-> TRUE, val |-> <<>>]
Ok(v) == [err |-> FALSE, val |-> v]

AESEncrypt(key, data) == IF ValidAESKey(key)
                         THEN Ok([k |-> key, p |-> data, ok |-> TRUE])
                         ELSE Err

AESDecrypt(key, ct) == IF ValidAESKey(key) /\ ct.ok /\ ct.k = key
                       THEN Ok(ct.p)
                       ELSE Err

\* base64.StdEncoding: a blob is the encoding of a ciphertext, or is not
\* valid base64 at all.
B64Encode(ct) == [b64 |-> TRUE, ct |-> ct]
B64Decode(blob) == IF blob.b64 THEN Ok(blob.ct) ELSE Err

(* ------------------------------- tokens ------------------------------- *)
\* A token is the list strings.Split(token, ":") yields.
BadCt == [k |-> PadPass(PW1), p |-> K0, ok |-> FALSE]
GoodToken(name, pass, key) ==
    <<name, B64Encode(AESEncrypt(PadPass(pass), key).val)>>

Tokens ==
    { GoodToken(u.Name, u.Pass, k) : u \in ConfUsers, k \in Keys }
    \cup { <<"u1">>,                                     \* no ':'
           GoodToken("nobody", PW1, K0),                 \* unknown user
           <<"u1", [b64 |-> FALSE, ct |-> BadCt]>>,      \* not base64
           <<"u1", B64Encode(BadCt)>>,                   \* malformed ciphertext
           GoodToken("u2", PW1, K0),                     \* wrong password
           GoodToken("u1", PW1, K0) \o <<"x">> }         \* extra ':' part

(* ----------------------------- peer table ----------------------------- *)
Nil == 0
EmptyRec == [Conn |-> Nil, Key |-> <<>>]
EmptyTable == [x \in {} |-> EmptyRec]

\* network.ARP.Update: insert-if-absent.  The Go result is TRUE when the
\* address was already in use (the conflict signal), FALSE when the record
\* was installed.
Update(tbl, ip, conn, key) ==
    [found |-> ip \in DOMAIN tbl,
     tbl   |-> IF ip \in DOMAIN tbl
               THEN tbl
               ELSE [x \in DOMAIN tbl \cup {ip} |->
                        IF x = ip THEN [Conn |-> conn, Key |-> key]
                                  ELSE tbl[x]]]

\* network.ARP.Delete: remove by key, idempotent.
Delete(tbl, ip) == [x \in DOMAIN tbl \ {ip} |-> tbl[x]]

\* network.ARP.Query: the record of ip, or the empty record.
Query(tbl, ip) == IF ip \in DOMAIN tbl THEN tbl[ip] ELSE EmptyRec

\* network.ARP.QueryOne: the single registered record, if any.
QueryOne(tbl) == IF DOMAIN tbl = {} THEN EmptyRec
                 ELSE tbl[CHOOSE x \in DOMAIN tbl : TRUE]

(* ------------------------------- state -------------------------------- *)
VARIABLES
    IsServer,   \* conf.IsServer
    YOUR_OS,    \* runtime.GOOS
    pc,         \* position of Create's main goroutine
    TryNumber,  \* virtualChannel.TryNumber
    tmpTry,     \* the value TryNumber++ has loaded and not yet stored
    attempts,   \* Connect calls made so far
    blackList,  \* vpn.blackList
    arpTable,   \* vpn.arpTable
    conns,      \* the transport's connections and what authentication gave them
    last,       \* what the most recent handler call returned and wrote
    hist,       \* bookkeeping over the reconnect loop
    task,       \* where each pump goroutine stands inside writeDevToTun
    keySetup,   \* a configured password and what setupAuthentication stores
    exitCode,   \* the exit status of the process, NoExit while it runs
    chanWrite,  \* which Connect built virtualChannel.FuncWriteDevToTun
    tunWrite    \* which Connect built the tunWrite that vpn.writeDevToTun calls

vars == <<IsServer, YOUR_OS, pc, TryNumber, tmpTry, attempts, blackList,
          arpTable, conns, last, hist, task, keySetup, exitCode,
          chanWrite, tunWrite>>

ConnIds == 1..MaxConn

\* The goroutines that call vpn.writeDevToTun: the device pump (Nil) and the
\* reader task of each connection.
Tasks == {Nil} \cup ConnIds
IdleTask == [st |-> "idle", conn |-> Nil]

\* vpn.userTable as setupAuthentication leaves it for this role.
userTable == setupAuthentication(IF IsServer THEN ConfUsers ELSE ClientUsers)

\* conf.Blacklist
ConfBlacklist == {IP_OUT}

EmptyRet == [ip |-> NoIP, key |-> <<>>, hook |-> FALSE]

\* The process has not exited.
NoExit == -1

(* ----------------------------- authenConn ----------------------------- *)
\* The byte test of authenConn's loop: TRUE when byte c makes it return.
RejectByte(c) ==
    c < 48 \/ (58 < c /\ c < 64) \/ (91 < c /\ c < 96) \/ c > 123

AuthFail(step, plain, tbl) ==
    [ret |-> EmptyRet, step |-> step, plain |-> plain, tbl |-> tbl]

\* authenUpdate with the test of Update's result inverted.
authenUpdate_Inverted(u, conn, keyByte, tbl) ==
    LET upd == Update(tbl, u.IP, conn, keyByte) IN
    IF upd.found
    THEN [ret |-> [ip |-> u.IP, key |-> keyByte, hook |-> TRUE],
          step |-> "ok", plain |-> keyByte, tbl |-> upd.tbl]
    ELSE AuthFail("inuse", keyByte, upd.tbl)

\* authenUpdate with Update's result ignored.
authenUpdate_NoCheck(u, conn, keyByte, tbl) ==
    LET upd == Update(tbl, u.IP, conn, keyByte) IN
    [ret |-> [ip |-> u.IP, key |-> keyByte, hook |-> TRUE],
     step |-> "ok", plain |-> keyByte, tbl |-> upd.tbl]

\* authenUpdate returning no on-close hook.
authenUpdate_NoHook(u, conn, keyByte, tbl) ==
    LET upd == Update(tbl, u.IP, conn, keyByte) IN
    IF ~upd.found
    THEN [ret |-> [ip |-> u.IP, key |-> keyByte, hook |-> FALSE],
          step |-> "ok", plain |-> keyByte, tbl |-> upd.tbl]
    ELSE AuthFail("inuse", keyByte, upd.tbl)

\* The end of authenConn: register the peer, and return the triple with
\* arpTable.Delete as the on-close hook when Update reports no conflict.
authenUpdate(u, conn, keyByte, tbl) ==
    LET upd == Update(tbl, u.IP, conn, keyByte) IN
    IF ~upd.found
    THEN [ret |-> [ip |-> u.IP, key |-> keyByte, hook |-> TRUE],
          step |-> "ok", plain |-> keyByte, tbl |-> upd.tbl]
    ELSE AuthFail("inuse", keyByte, upd.tbl)

\* authenConn(token, conn): the returned triple, the return statement taken
\* (step), the decrypted plaintext when there is one, and the table after.
authenConn(token, conn, tbl) ==
    LET arr == token IN
    IF Len(arr) < 2 THEN AuthFail("split", <<>>, tbl)
    ELSE IF arr[1] \notin DOMAIN userTable THEN AuthFail("user", <<>>, tbl)
    ELSE
      LET u == userTable[arr[1]]
          tokenByte == B64Decode(arr[2])
      IN
      IF tokenByte.err THEN AuthFail("base64", <<>>, tbl)
      ELSE
        LET keyByte == AESDecrypt(u.Pass, tokenByte.val) IN
        IF keyByte.err THEN AuthFail("decrypt", <<>>, tbl)
        ELSE IF \E i \in DOMAIN keyByte.val : RejectByte(keyByte.val[i])
        THEN AuthFail("charclass", keyByte.val, tbl)
        ELSE
          authenUpdate(u, conn, keyByte.val, tbl)

(* ------------------------------ the pumps ----------------------------- *)
\* network.ParseHeaderPacket: the destination of a packet.
ParseHeaderPacket(packet) == [IPDst |-> packet.dst]

Packets == [dst : Dsts]

\* vpn.getCurrentConnClient: Query on the server, QueryOne on the client.
getCurrentConnClient(tbl, ip) ==
    IF IsServer THEN Query(tbl, ip) ELSE QueryOne(tbl)

\* inMyNetwork with the client's constant-false closure in both roles.
inMyNetwork_Never(ip) == FALSE

\* vpn.inMyNetwork: subnet membership on the server, constant false on the
\* client.
inMyNetwork(ip) == IF IsServer THEN Contains(myNetwork, ip) ELSE FALSE

\* The transport accepts a write only on a connection that is still open.
Live(c) == c \in ConnIds /\ conns[c].st = "open"

NoWrite(step) == [tw |-> <<>>, dw |-> 0, err |-> FALSE, reset |-> FALSE,
                  step |-> step]

\* TUN.FuncWriteDevToTun as Connect builds it: TryNumber is set to 0
\* (reset), then the transport write is made and its error returned.
FuncWriteDevToTun(conn, data) ==
    [tw |-> <<[conn |-> conn, data |-> data]>>, dw |-> 0,
     err |-> ~Live(conn), reset |-> TRUE, step |-> "sent"]

\* vpn.writeDevToTun, the closure OnFuncWriteDevToTun installs.
writeDevToTun(header, data) ==
    LET r == getCurrentConnClient(arpTable, header.IPDst) IN
    IF r.Conn = Nil THEN NoWrite("norec")
    ELSE LET dataEn == AESEncrypt(r.Key, data) IN
         IF dataEn.err THEN NoWrite("encerr")
         ELSE FuncWriteDevToTun(r.Conn, dataEn.val)

\* writeTunToDev without the return that ends the relay branch.
writeTunToDev_FallThrough(key, data) ==
    LET rawData == AESDecrypt(key, data) IN
    IF rawData.err THEN NoWrite("decerr")
    ELSE LET header == ParseHeaderPacket(rawData.val) IN
         IF inMyNetwork(header.IPDst)
         THEN [writeDevToTun(header, rawData.val) EXCEPT !.dw = 1]
         ELSE [tw |-> <<>>, dw |-> 1, err |-> FALSE, reset |-> FALSE,
               step |-> "dev"]

\* writeTunToDev without the return after a decrypt error: the data goes on
\* to the device.
writeTunToDev_NoDecReturn(key, data) ==
    LET rawData == AESDecrypt(key, data) IN
    IF rawData.err
    THEN [tw |-> <<>>, dw |-> 1, err |-> FALSE, reset |-> FALSE,
          step |-> "dev"]
    ELSE LET header == ParseHeaderPacket(rawData.val) IN
         IF inMyNetwork(header.IPDst)
         THEN writeDevToTun(header, rawData.val)
         ELSE [tw |-> <<>>, dw |-> 1, err |-> FALSE, reset |-> FALSE,
               step |-> "dev"]

\* vpn.writeTunToDev(key, data)
writeTunToDev(key, data) ==
    LET rawData == AESDecrypt(key, data) IN
    IF rawData.err THEN NoWrite("decerr")
    ELSE LET header == ParseHeaderPacket(rawData.val) IN
         IF inMyNetwork(header.IPDst)
         THEN writeDevToTun(header, rawData.val)
         ELSE [tw |-> <<>>, dw |-> 1, err |-> FALSE, reset |-> FALSE,
               step |-> "dev"]

\* One iteration of vpn.handler on a packet read from the device.
handler(packet) ==
    LET header == ParseHeaderPacket(packet) IN
    IF header.IPDst \in blackList THEN NoWrite("blocked")
    ELSE writeDevToTun(header, packet)

(* ------------------------------ the channel --------------------------- *)
\* A frame on the wire: a ciphertext of a packet, possibly damaged.
FrameKeys == {K0, MkKey(32, 65)}
Frames == [k : FrameKeys, p : Packets, ok : {TRUE}]
          \cup {[k |-> K0, p |-> [dst |-> IP_OUT], ok |-> FALSE]}

\* The token Create builds on the client: user, ":" and the base64 of the
\* AES encryption of a fresh session key under the padded password.
tokenUser == GoodToken("u1", PW1, K0)

IdleConn == [st |-> "idle", ip |-> NoIP, key |-> <<>>, hook |-> FALSE]

\* What the channel keeps of a connection after calling FuncAuthenConn: an
\* empty triple closes it ("Authentication failed"), anything else opens it.
ConnAfterAuth(a) ==
    IF a.ret.ip = NoIP
    THEN [st |-> "closed", ip |-> NoIP, key |-> <<>>, hook |-> FALSE]
    ELSE [st |-> "open", ip |-> a.ret.ip, key |-> a.ret.key,
          hook |-> a.ret.hook]

\* The on-close hook of a connection, run once when the connection is over.
RunHook(tbl, c) == IF conns[c].hook THEN Delete(tbl, conns[c].ip) ELSE tbl

\* A connection whose hook has run: only its address is remembered.
Closed(cn) == [cn EXCEPT !.st = "closed", !.key = <<>>, !.hook = FALSE]

NextConn == CHOOSE c \in ConnIds :
                /\ conns[c].st = "idle"
                /\ \A d \in ConnIds : conns[d].st = "idle" => c <= d

NoLast == [op |-> "none", conn |-> Nil, token |-> <<>>, ret |-> EmptyRet,
           step |-> "", plain |-> <<>>, pre |-> EmptyRec, dst |-> NoIP,
           key |-> <<>>, tw |-> <<>>, dw |-> 0, err |-> FALSE, t0 |-> 0,
           ok |-> TRUE, via |-> Nil]

LastAuth(op, c, token, a, pre) ==
    [NoLast EXCEPT !.op = op, !.conn = c, !.token = token, !.ret = a.ret,
                   !.step = a.step, !.plain = a.plain, !.pre = pre,
                   !.t0 = TryNumber]

LastWrite(op, c, dst, key, w) ==
    [NoLast EXCEPT !.op = op, !.conn = c, !.dst = dst, !.key = key,
                   !.step = w.step, !.tw = w.tw, !.dw = w.dw, !.err = w.err,
                   !.t0 = TryNumber,
                   !.via = IF w.tw = <<>> THEN Nil ELSE tunWrite]

Alive == pc \notin {"exit_err", "exhausted"}
PumpOn == pc \in {"loop", "run", "sleep", "connect", "store"}

NoHist == [fails |-> 0, oks |-> 0, prevRun |-> -1, atRun |-> -1,
           wrOk |-> FALSE, okBetween |-> FALSE, lastOk |-> FALSE,
           slept |-> FALSE]

\* Only the client's reconnect loop reads wrOk (the server's Run() never
\* returns), so the server keeps no write history.
HistWrite(w) ==
    IF IsServer THEN hist
    ELSE [hist EXCEPT !.wrOk = @ \/ (w.step = "sent" /\ ~w.err)]

(* ------------------------------- actions ------------------------------ *)
Init ==
    /\ IsServer \in BOOLEAN
    /\ YOUR_OS \in {"linux", "windows", "darwin"}
    /\ pc = "main"
    /\ TryNumber = 0
    /\ tmpTry = 0
    /\ attempts = 0
    /\ blackList = {}
    /\ arpTable = EmptyTable
    /\ conns = [c \in ConnIds |-> IdleConn]
    /\ last = NoLast
    /\ hist = NoHist
    /\ task = [t \in Tasks |-> IdleTask]
    /\ keySetup = [Pass |-> PW1, done |-> TRUE, pass |-> PadPass(PW1)]
    /\ exitCode = NoExit
    /\ chanWrite = Nil
    /\ tunWrite = Nil

\* The effect of TUN.Connect after its TryNumber++: createWebSocket fails
\* (ok = FALSE) or gives a connection; on the client the new connection is
\* registered through FuncAuthenConn with the client's own token.
Dial(ok) ==
    /\ attempts < MaxAttempts
    /\ attempts' = attempts + 1
    /\ IF ok /\ ~IsServer
       THEN /\ \E c \in ConnIds : conns[c].st = "idle"
            /\ LET c == NextConn
                   a == authenConn(tokenUser, c, arpTable)
               IN  /\ arpTable' = a.tbl
                   /\ conns' = [conns EXCEPT ![c] = ConnAfterAuth(a)]
                   /\ last' = LastAuth("connect", c, tokenUser, a,
                                       Query(arpTable, IP_U1))
       ELSE /\ UNCHANGED <<arpTable, conns>>
            /\ last' = [NoLast EXCEPT !.op = "connect", !.err = ~ok,
                                      !.t0 = TryNumber]
    /\ chanWrite' = IF ok THEN hist.oks + 1 ELSE chanWrite
    /\ hist' = IF ok THEN [hist EXCEPT !.oks = @ + 1, !.lastOk = TRUE,
                                         !.slept = FALSE]
                     ELSE [hist EXCEPT !.fails = @ + 1, !.lastOk = FALSE,
                                         !.slept = FALSE]

\* Create line 118: the first Connect; its error ends Create.
Connect0(ok) ==
    /\ pc = "connect0"
    /\ TryNumber' = TryNumber + 1
    /\ Dial(ok)
    /\ pc' = IF ok THEN "route" ELSE "exit_err"
    /\ UNCHANGED <<IsServer, YOUR_OS, tunWrite, keySetup, exitCode, task,
                   tmpTry, blackList>>

\* Create lines 123-132: setupRoute, then the pump is bound and started.
SetupRoute(ok) ==
    /\ pc = "route"
    /\ LET supported == \/ YOUR_OS = "linux"
                        \/ (YOUR_OS = "windows" /\ ~IsServer)
       IN  /\ blackList' = IF YOUR_OS = "windows" /\ ~IsServer
                           THEN ConfBlacklist ELSE blackList
           /\ pc' = IF supported /\ ok THEN "loop" ELSE "exit_err"
    /\ tunWrite' = IF pc' = "loop" THEN chanWrite ELSE tunWrite
    /\ last' = [NoLast EXCEPT !.op = "route", !.err = (pc' = "exit_err")]
    /\ UNCHANGED <<IsServer, YOUR_OS, chanWrite, keySetup, exitCode, task,
                   TryNumber, tmpTry, attempts, arpTable, conns, hist>>

\* Create lines 137-141: the head of the supervisor loop.
LoopCheck ==
    /\ pc = "loop"
    /\ pc' = IF TryNumber > MAX_TRY THEN "exhausted" ELSE "run"
    /\ last' = [NoLast EXCEPT !.op = "check", !.t0 = TryNumber]
    /\ UNCHANGED <<IsServer, YOUR_OS, chanWrite, tunWrite, keySetup, exitCode,
                   task, TryNumber, tmpTry, attempts, blackList, arpTable,
                   conns, hist>>

\* Create line 142: Run() returns once the client's connection is over; the
\* connection's on-close hook has run by then.
RunReturn ==
    /\ pc = "run"
    /\ ~IsServer
    /\ \A c \in ConnIds : conns[c].st # "open"
    /\ LET ended == {c \in ConnIds : conns[c].st = "ended"} IN
       /\ arpTable' = IF ended = {} THEN arpTable
                       ELSE RunHook(arpTable, CHOOSE c \in ended : TRUE)
       /\ conns' = [c \in ConnIds |->
                       IF c \in ended THEN Closed(conns[c])
                       ELSE conns[c]]
    /\ pc' = "sleep"
    /\ hist' = [hist EXCEPT !.prevRun = hist.atRun, !.atRun = TryNumber,
                            !.okBetween = hist.wrOk, !.wrOk = FALSE]
    /\ last' = [NoLast EXCEPT !.op = "run", !.err = TRUE, !.t0 = TryNumber]
    /\ UNCHANGED <<IsServer, YOUR_OS, chanWrite, tunWrite, keySetup, exitCode,
                   task, TryNumber, tmpTry, attempts, blackList>>

\* Create lines 143-144: the log line and time.Sleep(TIME_TO_TRY).
Sleep ==
    /\ pc = "sleep"
    /\ pc' = "connect"
    /\ last' = [NoLast EXCEPT !.op = "sleep", !.t0 = TryNumber]
    /\ hist' = [hist EXCEPT !.slept = TRUE]
    /\ UNCHANGED <<IsServer, YOUR_OS, chanWrite, tunWrite, keySetup, exitCode,
                   task, TryNumber, tmpTry, attempts, blackList, arpTable,
                   conns>>

\* TUN.Connect line 21, first half of TryNumber++: the load.
ConnectLoad ==
    /\ pc = "connect"
    /\ attempts < MaxAttempts
    /\ tmpTry' = TryNumber
    /\ pc' = "store"
    /\ last' = [NoLast EXCEPT !.op = "load", !.t0 = TryNumber]
    /\ UNCHANGED <<IsServer, YOUR_OS, chanWrite, tunWrite, keySetup, exitCode,
                   task, TryNumber, attempts, blackList, arpTable, conns,
                   hist>>

\* TUN.Connect lines 21-34, from the store of TryNumber++ on; Create logs a
\* failed Connect and loops.
ConnectStore(ok) ==
    /\ pc = "store"
    /\ TryNumber' = tmpTry + 1
    /\ Dial(ok)
    /\ pc' = "loop"
    /\ UNCHANGED <<IsServer, YOUR_OS, tunWrite, keySetup, exitCode, task,
                   tmpTry, blackList>>

\* Server: a new connection sends its token as the first frame.
Handshake(token) ==
    /\ pc = "run"
    /\ IsServer
    /\ \E c \in ConnIds : conns[c].st = "idle"
    /\ LET c == NextConn
           a == authenConn(token, c, arpTable)
           pre == IF Len(token) >= 1 /\ token[1] \in DOMAIN userTable
                  THEN Query(arpTable, userTable[token[1]].IP)
                  ELSE EmptyRec
       IN  /\ arpTable' = a.tbl
           /\ conns' = [conns EXCEPT ![c] = ConnAfterAuth(a)]
           /\ last' = LastAuth("auth", c, token, a, pre)
    /\ UNCHANGED <<IsServer, YOUR_OS, chanWrite, tunWrite, keySetup, exitCode,
                   task, pc, TryNumber, tmpTry, attempts, blackList, hist>>

\* The transport of an open connection breaks or is closed by the peer.
ConnEnd(c) ==
    /\ Alive
    /\ exitCode = NoExit
    /\ conns[c].st = "open"
    /\ conns' = [conns EXCEPT ![c].st = "ended"]
    /\ last' = [NoLast EXCEPT !.op = "end", !.conn = c, !.t0 = TryNumber]
    /\ UNCHANGED <<IsServer, YOUR_OS, chanWrite, tunWrite, keySetup, exitCode,
                   task, pc, TryNumber, tmpTry, attempts, blackList, arpTable,
                   hist>>

\* Server: the reader task of an ended connection runs its on-close hook.
HookRun(c) ==
    /\ pc = "run"
    /\ IsServer
    /\ conns[c].st = "ended"
    /\ task[c].st = "idle"
    /\ arpTable' = RunHook(arpTable, c)
    /\ conns' = [conns EXCEPT ![c] = Closed(conns[c])]
    /\ last' = [NoLast EXCEPT !.op = "hook", !.conn = c, !.dst = conns[c].ip,
                              !.t0 = TryNumber]
    /\ UNCHANGED <<IsServer, YOUR_OS, chanWrite, tunWrite, keySetup, exitCode,
                   task, pc, TryNumber, tmpTry, attempts, blackList, hist>>

\* The reader task of connection c hands one inbound frame to
\* FuncWriteTunToDev with the connection's session key.
TunnelFrame(c, frame) ==
    /\ pc = "run"
    /\ conns[c].st = "open"
    /\ LET w == writeTunToDev(conns[c].key, frame) IN
       /\ TryNumber' = IF w.reset THEN 0 ELSE TryNumber
       /\ last' = [LastWrite("frame", c, frame.p.dst, frame.k, w)
                      EXCEPT !.ok = frame.ok]
       /\ hist' = HistWrite(w)
    /\ UNCHANGED <<IsServer, YOUR_OS, chanWrite, tunWrite, keySetup, exitCode,
                   task, pc, tmpTry, attempts, blackList, arpTable, conns>>

\* The device pump (go vpn.handler()) reads one packet and handles it.
DevicePacket(packet) ==
    /\ PumpOn
    /\ LET w == handler(packet) IN
       /\ TryNumber' = IF w.reset THEN 0 ELSE TryNumber
       /\ last' = LastWrite("pump", Nil, packet.dst, <<>>, w)
       /\ hist' = HistWrite(w)
    /\ UNCHANGED <<IsServer, YOUR_OS, chanWrite, tunWrite, keySetup, exitCode,
                   task, pc, tmpTry, attempts, blackList, arpTable, conns>>

\* main lines 72-93: config.Load and, on the client, utils.ValidServer; an
\* error of either ends the process with os.Exit(1).
LoadConfig(ok) ==
    /\ pc = "main"
    /\ pc' = IF ok THEN "create" ELSE "conf_err"
    /\ exitCode' = IF ok THEN NoExit ELSE 1
    /\ last' = [NoLast EXCEPT !.op = "config", !.err = ~ok]
    /\ UNCHANGED <<IsServer, YOUR_OS, chanWrite, tunWrite, keySetup, task,
                   TryNumber, tmpTry, attempts, blackList, arpTable, conns,
                   hist>>

\* Create lines 70-81: net.ParseCIDR and tun.CreateTUN; an error of either
\* makes Create return it.
CreateDevice(ok) ==
    /\ pc = "create"
    /\ pc' = IF ok THEN "connect0" ELSE "dev_err"
    /\ last' = [NoLast EXCEPT !.op = "device", !.err = ~ok]
    /\ UNCHANGED <<IsServer, YOUR_OS, chanWrite, tunWrite, keySetup, exitCode,
                   task, TryNumber, tmpTry, attempts, blackList, arpTable,
                   conns, hist>>

\* main lines 116-120: Create has returned; main logs its error, if any, and
\* returns, which ends the process with status 0.
MainReturn ==
    /\ pc \in {"dev_err", "exit_err", "exhausted"}
    /\ exitCode = NoExit
    /\ exitCode' = 0
    /\ last' = [NoLast EXCEPT !.op = "return", !.t0 = TryNumber]
    /\ UNCHANGED <<IsServer, YOUR_OS, chanWrite, tunWrite, keySetup, task, pc,
                   TryNumber, tmpTry, attempts, blackList, arpTable, conns,
                   hist>>

\* handlerCtrC's goroutine, installed at Create line 132: on SIGINT or
\* SIGTERM it calls vpn.stop() and os.Exit(1).
Interrupt ==
    /\ PumpOn
    /\ pc' = "signal"
    /\ exitCode' = 1
    /\ last' = [NoLast EXCEPT !.op = "signal", !.t0 = TryNumber]
    /\ UNCHANGED <<IsServer, YOUR_OS, chanWrite, tunWrite, keySetup, task,
                   TryNumber, tmpTry, attempts, blackList, arpTable, conns,
                   hist>>

Next ==
    \/ \E ok \in BOOLEAN : LoadConfig(ok)
    \/ \E ok \in BOOLEAN : CreateDevice(ok)
    \/ MainReturn
    \/ Interrupt
    \/ \E ok \in BOOLEAN : Connect0(ok)
    \/ \E ok \in BOOLEAN : SetupRoute(ok)
    \/ LoopCheck
    \/ RunReturn
    \/ Sleep
    \/ ConnectLoad
    \/ \E ok \in BOOLEAN : ConnectStore(ok)
    \/ \E token \in Tokens : Handshake(token)
    \/ \E c \in ConnIds : ConnEnd(c)
    \/ \E c \in ConnIds : HookRun(c)
    \/ \E c \in ConnIds, frame \in Frames : TunnelFrame(c, frame)
    \/ \E packet \in Packets : DevicePacket(packet)

Spec == Init /\ [][Next]_vars

(* ------------------- the pumps, one statement at a time ---------------- *)
\* vpn.writeDevToTun takes no lock: between its lookup (vpn.go line 168) and
\* its call of tunWrite (line 180), and while the transport write is under
\* way, the other goroutines run.  The actions below take the two pumps
\* through writeDevToTun in three steps: lookup and encryption, the start of
\* tunWrite, its return.

\* Task t after the lookup and encryption of writeDevToTun gave w: it holds
\* r.Conn and is about to call tunWrite, or it has dropped the packet.
AfterLookup(t, dst, w) ==
    /\ task' = [task EXCEPT ![t] =
                   IF w.tw = <<>> THEN IdleTask
                   ELSE [st |-> "got", conn |-> w.tw[1].conn]]
    /\ last' = [NoLast EXCEPT !.op = "lookup", !.conn = t, !.dst = dst,
                              !.step = w.step, !.dw = w.dw,
                              !.t0 = TryNumber]
    /\ UNCHANGED <<IsServer, YOUR_OS, chanWrite, tunWrite, keySetup, exitCode,
                   pc, TryNumber, tmpTry, attempts, blackList, arpTable,
                   conns, hist>>

\* vpn.handler up to the call of tunWrite.
PumpLookup(packet) ==
    /\ PumpOn
    /\ task[Nil].st = "idle"
    /\ AfterLookup(Nil, packet.dst, handler(packet))

\* The reader task of connection c: writeTunToDev up to the call of
\* tunWrite on its relay branch.
ReaderLookup(c, frame) ==
    /\ pc = "run"
    /\ conns[c].st = "open"
    /\ task[c].st = "idle"
    /\ AfterLookup(c, frame.p.dst, writeTunToDev(conns[c].key, frame))

\* tunWrite is entered: TryNumber = 0, then srcConn.WriteDevToTun starts
\* writing on the handle the lookup gave.
WriteBegin(t) ==
    /\ exitCode = NoExit
    /\ task[t].st = "got"
    /\ task' = [task EXCEPT ![t].st = "writing"]
    /\ TryNumber' = 0
    /\ last' = [NoLast EXCEPT !.op = "write", !.conn = t,
                              !.err = ~Live(task[t].conn), !.t0 = TryNumber]
    /\ UNCHANGED <<IsServer, YOUR_OS, chanWrite, tunWrite, keySetup, exitCode,
                   pc, tmpTry, attempts, blackList, arpTable, conns, hist>>

\* srcConn.WriteDevToTun returns.
WriteEnd(t) ==
    /\ exitCode = NoExit
    /\ task[t].st = "writing"
    /\ task' = [task EXCEPT ![t] = IdleTask]
    /\ last' = [NoLast EXCEPT !.op = "written", !.conn = t, !.t0 = TryNumber]
    /\ UNCHANGED <<IsServer, YOUR_OS, chanWrite, tunWrite, keySetup, exitCode,
                   pc, TryNumber, tmpTry, attempts, blackList, arpTable,
                   conns, hist>>

\* Next with DevicePacket and TunnelFrame taken one statement at a time.
NextRace ==
    \/ \E ok \in BOOLEAN : LoadConfig(ok)
    \/ \E ok \in BOOLEAN : CreateDevice(ok)
    \/ MainReturn
    \/ Interrupt
    \/ \E ok \in BOOLEAN : Connect0(ok)
    \/ \E ok \in BOOLEAN : SetupRoute(ok)
    \/ LoopCheck
    \/ RunReturn
    \/ Sleep
    \/ ConnectLoad
    \/ \E ok \in BOOLEAN : ConnectStore(ok)
    \/ \E token \in Tokens : Handshake(token)
    \/ \E c \in ConnIds : ConnEnd(c)
    \/ \E c \in ConnIds : HookRun(c)
    \/ \E packet \in Packets : PumpLookup(packet)
    \/ \E c \in ConnIds, frame \in Frames : ReaderLookup(c, frame)
    \/ \E t \in Tasks : WriteBegin(t)
    \/ \E t \in Tasks : WriteEnd(t)

SpecRace == Init /\ [][NextRace]_vars

(* --------------------------- setupAuthentication ----------------------- *)
\* Configured passwords: every length up to MaxPassLen, ending in 'p' or in
\* 't', the filler itself.
Passwords == {MkKey(n, b) : n \in 0..MaxPassLen, b \in {112, 116}}

\* Create up to line 94, for any role and platform, with one configured user
\* whose password is drawn from Passwords.
InitPad ==
    /\ IsServer \in BOOLEAN
    /\ YOUR_OS \in {"linux", "windows", "darwin"}
    /\ pc = "connect0"
    /\ TryNumber = 0
    /\ tmpTry = 0
    /\ attempts = 0
    /\ blackList = {}
    /\ arpTable = EmptyTable
    /\ conns = [c \in ConnIds |-> IdleConn]
    /\ last = NoLast
    /\ hist = NoHist
    /\ task = [t \in Tasks |-> IdleTask]
    /\ keySetup \in [Pass : Passwords, done : {FALSE}, pass : {<<>>}]
    /\ exitCode = NoExit
    /\ chanWrite = Nil
    /\ tunWrite = Nil

\* One iteration of setupAuthentication's loop: userTable[u.Name].Pass.
SetupAuthentication ==
    /\ ~keySetup.done
    /\ keySetup' = [keySetup EXCEPT !.done = TRUE,
                                    !.pass = PadPass(keySetup.Pass)]
    /\ UNCHANGED <<IsServer, YOUR_OS, pc, TryNumber, tmpTry, attempts,
                   blackList, arpTable, conns, last, hist, task, exitCode,
                   chanWrite, tunWrite>>

NextPad == SetupAuthentication

SpecPad == InitPad /\ [][NextPad]_vars

(* ------------------------------- claims ------------------------------- *)
\* The address and the session key a well-formed token stands for.
TokenIP(token) == userTable[token[1]].IP
TokenKey(token) == token[2].ct.p

\* The last call was authenConn and it got as far as Update.
AuthReachedUpdate ==
    /\ last.op \in {"auth", "connect"}
    /\ last.conn # Nil
    /\ last.step \in {"ok", "inuse"}

\* Connections that were accepted and whose on-close hook has not run.
Holders(ip) == {c \in ConnIds : conns[c].st \in {"open", "ended"}
                                 /\ conns[c].ip = ip}

\* The character class the specification allows in a session key.
AllowedClass == (48..57) \cup (65..90) \cup (97..122)

TokenFails(token, tbl) ==
    \/ Len(token) < 2
    \/ token[1] \notin DOMAIN userTable
    \/ ~token[2].b64
    \/ AESDecrypt(userTable[token[1]].Pass, token[2].ct).err
    \/ \E i \in DOMAIN TokenKey(token) : TokenKey(token)[i] \notin AllowedClass
    \/ TokenIP(token) \in DOMAIN tbl

\* C4: a token that fails any authentication step gets the empty triple
\* and leaves the peer table exactly as it was before the call.
C4_TokenRejection ==
    [][(last'.op = "auth" /\ TokenFails(last'.token, arpTable)) =>
          (last'.ret = EmptyRet /\ arpTable' = arpTable)]_vars

\* C5: the character-class filter lets a decrypted plaintext through only
\* if every byte is a digit, an upper-case or a lower-case letter; a
\* plaintext with any other byte makes authenConn return the empty triple.
C5_CharClassFilter ==
    (last.op \in {"auth", "connect"} /\ last.plain # <<>>) =>
        /\ last.step \in {"ok", "inuse"} =>
              \A i \in DOMAIN last.plain : last.plain[i] \in AllowedClass
        /\ (\E i \in DOMAIN last.plain : last.plain[i] \notin AllowedClass)
              => last.ret = EmptyRet

\* C6: from one Run() return to the next TryNumber has grown unless a
\* successful write came between, and the supervisor loop ends with
\* "Failed to connect to server" exactly when it finds TryNumber > MAX_TRY.
C6_TryCountMonotone ==
    /\ (hist.prevRun >= 0 /\ ~hist.okBetween) => hist.atRun > hist.prevRun
    /\ pc = "exhausted" => TryNumber > MAX_TRY
    /\ (last.op = "check" /\ last.t0 > MAX_TRY) => pc = "exhausted"

\* C7: a client none of whose connect attempts succeeded, the first
\* included, keeps retrying; it stops only after MAX_TRY failed attempts,
\* with "Failed to connect to server".
C7_ClientRetries ==
    (~IsServer /\ hist.oks = 0 /\ ~Alive) =>
        (pc = "exhausted" /\ hist.fails = MAX_TRY)

\* C8: a packet handed to a pump sets TryNumber to 0 if its transport
\* write succeeded, and leaves TryNumber as it was if the write returned
\* an error or the packet was dropped before the transport.
C8_ResetOnlyOnSuccess ==
    last.op \in {"pump", "frame"} =>
        IF last.step = "sent" /\ ~last.err
        THEN TryNumber = 0
        ELSE TryNumber = last.t0

\* The single transport write of packet dst to connection b under b's key.
RelayWrite(b, dst) ==
    <<[conn |-> b,
       data |-> [k |-> conns[b].key, p |-> [dst |-> dst], ok |-> TRUE]]>>

\* C9 as stated: on the server, a frame that decrypts and is addressed to
\* the virtual IP of an authenticated peer B causes exactly one transport
\* write, to B's connection under B's key, and no device write.
C9_RelayOnce ==
    (IsServer /\ last.op = "frame" /\ last.step # "decerr") =>
        \A b \in Holders(last.dst) :
            last.tw = RelayWrite(b, last.dst) /\ last.dw = 0

\* C9 as amended: the same when encryption under B's key succeeds; when it
\* fails the packet is dropped with no transport and no device write.
C9_RelayOnceIfEncrypts ==
    (IsServer /\ last.op = "frame" /\ last.step # "decerr") =>
        \A b \in Holders(last.dst) :
            /\ last.dw = 0
            /\ last.tw = IF AESEncrypt(conns[b].key, [dst |-> last.dst]).err
                         THEN <<>>
                         ELSE RelayWrite(b, last.dst)

C9_Witness ==
    /\ IsServer
    /\ last.op = "frame"
    /\ last.conn = 1
    /\ last.dst = IP_U2
    /\ conns[1].st = "open" /\ conns[1].ip = IP_U1
    /\ conns[2].st = "open" /\ conns[2].ip = IP_U2
    /\ conns[1].key # conns[2].key
    /\ last.tw = RelayWrite(2, IP_U2)
    /\ last.dw = 0

\* Some connection that held ip has had its on-close hook run, and no
\* accepted connection other than c holds ip now.
HookHasRun(ip, c) ==
    /\ \E d \in ConnIds : conns[d].st = "closed" /\ conns[d].ip = ip
    /\ Holders(ip) \ {c} = {}

C11_NoWriteToClosed ==
    [][\A t \in Tasks :
          /\ (task[t].st = "idle" /\ task'[t].st = "got")
                => Live(task'[t].conn)
          /\ (task[t].st = "got" /\ task'[t].st = "writing")
                => Live(task[t].conn)]_vars

\* The tasks whose transport write on connection c is under way.
Writers(c) == {t \in Tasks : task[t].st = "writing" /\ task[t].conn = c}

\* C12: at any time at most one write is in progress on a connection, also
\* when the device pump and the relay path of reader tasks resolve to the
\* same peer connection.
C12_SingleWriter == \A c \in ConnIds : Cardinality(Writers(c)) <= 1

\* C13: on every supported platform and role, once startup has completed,
\* a packet read from the device whose destination is a configured
\* blacklist address causes no transport write, and the device pump goes on.
C13_BlacklistDrop ==
    (last.op = "pump" /\ last.dst \in ConfBlacklist) =>
        (last.tw = <<>> /\ PumpOn)

\* C14: for every configured password of length 1..32 the stored
\* key-encryption key is exactly 32 bytes long, begins with the password and
\* is filled with the filler character 't'; no such password gives an empty
\* key.
C14_KeyDerivation ==
    (keySetup.done /\ Len(keySetup.Pass) \in 1..KEY_LEN) =>
        /\ Len(keySetup.pass) = KEY_LEN
        /\ \A i \in 1..Len(keySetup.Pass) : keySetup.pass[i] = keySetup.Pass[i]
        /\ \A i \in (Len(keySetup.Pass) + 1)..KEY_LEN : keySetup.pass[i] = 116
        /\ keySetup.pass # <<>>

\* C15: the process ends with exit status 0 on a clean shutdown (SIGINT or
\* SIGTERM), and with exit status 1 on a startup failure (configuration,
\* device creation, initial connect, route setup) and on exhausting the
\* reconnect attempts.
C15_ExitCodes ==
    /\ pc = "signal" => exitCode = 0
    /\ (pc \in {"conf_err", "dev_err", "exit_err", "exhausted"}
           /\ exitCode # NoExit)
          => exitCode = 1

\* C16: the supervisor enters Run() only when the most recent Connect
\* succeeded (after a failed Connect it sleeps and calls Connect again
\* without calling Run()), and every Connect after the first is preceded by
\* a TIME_TO_TRY sleep made since the Connect before it.
C16_StepOrdering ==
    [][/\ (pc = "loop" /\ pc' = "run") => hist.lastOk
       /\ (attempts >= 1 /\ attempts' = attempts + 1) => hist.slept]_vars

\* C17: TryNumber is not shared between concurrent tasks: while the
\* supervisor is between the load and the store of its TryNumber++ no other
\* task writes TryNumber, so the store leaves the current value plus one and
\* no reset or increment is lost.
C17_NoSharedTryNumber ==
    [][/\ (pc = "store" /\ pc' = "store") => TryNumber' = TryNumber
       /\ (pc = "store" /\ pc' = "loop") => TryNumber' = TryNumber + 1]_vars

\* The frame a "frame" record l is about, and whether its decryption under
\* the key of the connection it came in on fails.
FrameOf(l) == [k |-> l.key, p |-> [dst |-> l.dst], ok |-> l.ok]
DecryptFails(l) == AESDecrypt(conns[l.conn].key, FrameOf(l)).err

\* The packet of record l gets as far as encryption (not blacklisted on the
\* device pump; decrypted and in-subnet on the relay path), a record is
\* found for it, and encryption under the record's key fails.
EncryptFails(l) ==
    /\ IF l.op = "pump" THEN l.dst \notin blackList
       ELSE ~DecryptFails(l) /\ inMyNetwork(l.dst)
    /\ LET r == getCurrentConnClient(arpTable, l.dst) IN
       r.Conn # Nil /\ AESEncrypt(r.Key, [dst |-> l.dst]).err

\* C18: a frame whose decryption fails causes no device write and no
\* transport write and leaves the peer table unchanged; a packet whose
\* encryption fails causes no transport write and returns no error; in both
\* cases the pump is left as it was, ready for the next packet.
C18_CryptoFailureDrops ==
    [][/\ (last'.op = "frame" /\ DecryptFails(last'))
             => /\ last'.tw = <<>> /\ last'.dw = 0
                /\ arpTable' = arpTable
                /\ pc' = pc /\ conns' = conns
       /\ (last'.op \in {"pump", "frame"} /\ EncryptFails(last'))
             => /\ last'.tw = <<>> /\ ~last'.err
                /\ pc' = pc /\ conns' = conns]_vars

C18_Witness ==
    /\ last.op = "frame"
    /\ conns[last.conn].st = "open"
    /\ ValidAESKey(conns[last.conn].key)
    /\ last.key # conns[last.conn].key
    /\ DecryptFails(last)
    /\ last.tw = <<>> /\ last.dw = 0

\* C19: on the server, a frame that decrypts to a packet whose destination
\* is inside the virtual subnet but has no peer record (an unconnected
\* user's address, the server's own address) causes no device write and no
\* transport write; the device is written only when the destination is
\* outside the virtual subnet.
C19_InSubnetNoRecordDrop ==
    (IsServer /\ last.op = "frame" /\ ~DecryptFails(last)) =>
        /\ (Contains(myNetwork, last.dst) /\ last.dst \notin DOMAIN arpTable)
              => (last.tw = <<>> /\ last.dw = 0)
        /\ last.dw > 0 => ~Contains(myNetwork, last.dst)

C19_Witness ==
    /\ IsServer
    /\ last.op = "frame"
    /\ ~DecryptFails(last)
    /\ last.dst = IP_SRV
    /\ DOMAIN arpTable = {IP_U1}
    /\ last.tw = <<>> /\ last.dw = 0

\* C20: every packet the device pump sends goes through the write function
\* built by the most recent successful Connect, also after a reconnect, and
\* never through the one bound to an earlier, terminated connection.
C20_PumpUsesCurrentChannel ==
    (last.op = "pump" /\ last.tw # <<>>) => last.via = chanWrite

====
